---- MODULE Spec2Model ----
(***************************************************************************)
(* KnowMe mental-health data analyzer (submissions/KnowMe).                *)
(*                                                                         *)
(* The model covers the FastAPI handlers of main.py (/analyze and          *)
(* /analyze-batch), OpenAIService.analyze_mental_health_data with its      *)
(* recommendation flow, and the DataProcessor pipeline.                    *)
(*                                                                         *)
(* Units.  Input scores (sentiment, engagement, wellbeing) are integers    *)
(* in hundredths (5000 is 50.00).  Means and percentages are exact         *)
(* rationals [num, den]; the binary floating-point error of pandas is not  *)
(* modelled.  Chart values, which the code rounds to one decimal, are      *)
(* integers in tenths (1000 is 100.0).  A timestamp is the number of hours *)
(* since 2025-01-01T00:00, so its calendar date is a day of January 2025.  *)
(* An Optional[T] field is <<>> for None and <<v>> for the value v.        *)
(***************************************************************************)
EXTENDS Integers, Sequences, FiniteSets, TLC

VARIABLES
    entry,      \* the entry point of the call in progress
    pc,         \* the position of the call in progress
    req,        \* its argument: a list of data points, or of datasets
    idx,        \* /analyze-batch: the number of datasets already answered
    processed,  \* the dict returned by the last process_data
    chart,      \* the chart_data dict of the dataset being analysed
    gen,        \* what the external generator did on the last call to it
    recs,       \* the list returned by the last _generate_recommendations
    genCalls,   \* the number of calls made to the external generator
    procCalls,  \* the number of calls made to DataProcessor.process_data
    results,    \* /analyze-batch: the list `results`
    out,        \* what the call returned or raised
    numPosts,   \* /generate-data: the argument num_posts
    samples,    \* /generate-data: the list generate_sample_data returned
    shared,     \* what all requests share: openai_service and the random module
    clients     \* concurrent requests: the local state of each

vars ==
    <<entry, pc, req, idx, processed, chart, gen, recs, genCalls, procCalls,
      results, out, numPosts, samples, shared, clients>>

\* The variables of the /generate-data flow and of concurrent requests.
sampleVars == <<numPosts, samples>>

sharedVars == <<shared, clients>>

(***************************************************************************)
(* Bounds of the model.                                                    *)
(***************************************************************************)
MaxBatch == 5

MaxServiceBatch == 1

MaxDatasets == 3

MaxItems == 5

MaxPosts == 3

MaxClientPosts == 1

(***************************************************************************)
(* Program constants.                                                      *)
(***************************************************************************)
MinDataPoints == 5

NumRecommendations == 4

ScatterLimit == 5

TopWords == 7

(***************************************************************************)
(* Text: Python str operations on TLA+ strings.                            *)
(***************************************************************************)
UpperToLower ==
    [c \in {"A","B","C","D","E","F","G","H","I","J","K","L","M",
            "N","O","P","Q","R","S","T","U","V","W","X","Y","Z"} |->
        CASE c = "A" -> "a" [] c = "B" -> "b" [] c = "C" -> "c" [] c = "D" -> "d"
          [] c = "E" -> "e" [] c = "F" -> "f" [] c = "G" -> "g" [] c = "H" -> "h"
          [] c = "I" -> "i" [] c = "J" -> "j" [] c = "K" -> "k" [] c = "L" -> "l"
          [] c = "M" -> "m" [] c = "N" -> "n" [] c = "O" -> "o" [] c = "P" -> "p"
          [] c = "Q" -> "q" [] c = "R" -> "r" [] c = "S" -> "s" [] c = "T" -> "t"
          [] c = "U" -> "u" [] c = "V" -> "v" [] c = "W" -> "w" [] c = "X" -> "x"
          [] c = "Y" -> "y" [] c = "Z" -> "z"]

\* str.lower() of one character.
LowerChar(c) == IF c \in DOMAIN UpperToLower THEN UpperToLower[c] ELSE c

RECURSIVE LowerFrom(_, _)
LowerFrom(s, i) ==
    IF i > Len(s) THEN ""
    ELSE LowerChar(SubSeq(s, i, i)) \o LowerFrom(s, i + 1)

\* str.lower()
Lower(s) == LowerFrom(s, 1)

\* Python's `sub in s` for a non-empty sub.
Contains(sub, s) ==
    \E i \in 1..(Len(s) - Len(sub) + 1) : SubSeq(s, i, i + Len(sub) - 1) = sub

\* The regular expression class \w on lowercased ASCII text: letters,
\* digits and the underscore.
WordChars ==
    {"a","b","c","d","e","f","g","h","i","j","k","l","m",
     "n","o","p","q","r","s","t","u","v","w","x","y","z",
     "0","1","2","3","4","5","6","7","8","9","_"}

\* The regular expression class \s.
SpaceChars == {" "}

RECURSIVE CleanFrom(_, _)
CleanFrom(s, i) ==
    IF i > Len(s) THEN ""
    ELSE LET c == SubSeq(s, i, i)
         IN  (IF c \in WordChars \cup SpaceChars THEN c ELSE " ")
                 \o CleanFrom(s, i + 1)

\* re.sub(r'[^\w\s]', ' ', str(text).lower())
CleanText(text) == CleanFrom(Lower(text), 1)

RECURSIVE SplitFrom(_, _, _)
SplitFrom(s, i, cur) ==
    IF i > Len(s) THEN (IF cur = "" THEN <<>> ELSE <<cur>>)
    ELSE LET c == SubSeq(s, i, i)
         IN  IF c \in SpaceChars
             THEN (IF cur = "" THEN <<>> ELSE <<cur>>) \o SplitFrom(s, i + 1, "")
             ELSE SplitFrom(s, i + 1, cur \o c)

\* str.split(): the maximal runs of non-whitespace characters.
Split(s) == SplitFrom(s, 1, "")

(***************************************************************************)
(* Arithmetic on exact rationals [num, den] with den > 0.                  *)
(***************************************************************************)
RECURSIVE SumSeq(_)
SumSeq(s) == IF s = <<>> THEN 0 ELSE Head(s) + SumSeq(Tail(s))

\* The column `f` of a frame, in row order.
Col(df, f) == [i \in 1..Len(df) |-> df[i][f]]

\* pandas 'mean' of a column of scores given in hundredths.
MeanOf(df, f) == [num |-> SumSeq(Col(df, f)), den |-> 100 * Len(df)]

RatEq(a, b) == a.num * b.den = b.num * a.den

RatGeq(a, k) == a.num >= k * a.den

\* Rounding of the non-negative n/d to the nearest integer, ties to even.
RoundHalfEven(n, d) ==
    LET f == n \div d
        r == n % d
    IN  IF 2 * r < d THEN f
        ELSE IF 2 * r > d THEN f + 1
        ELSE IF f % 2 = 0 THEN f ELSE f + 1

\* Truncation to one decimal instead of rounding: int(x * 10) / 10.
Round1_truncated(x) == (10 * x.num) \div x.den

\* Python round(x, 1) of the rational x, as a number of tenths.
Round1(x) == RoundHalfEven(10 * x.num, x.den)

(***************************************************************************)
(* models.py: the request and response types.                              *)
(***************************************************************************)
\* InputDataPoint instances (the fields the pipeline reads).  kind is
\* "model" for a pydantic object and "dict" for the result of .dict().
R1 == [kind |-> "model", timestamp |-> 346,
       caption_text |-> "I feel anxious and stressed about the deadline",
       hashtags |-> "",
       sentiment_score |-> 5000, engagement_score |-> 7500,
       wellbeing_index |-> 8000, likes_count |-> 12, comments_count |-> 3,
       shares_count |-> 1, time_spent_on_post |-> 45,
       night_usage_minutes |-> 30]

R2 == [kind |-> "model", timestamp |-> 356,
       caption_text |-> "Download done",
       hashtags |-> "#Burnout #sleep_issues",
       sentiment_score |-> 8050, engagement_score |-> 9200,
       wellbeing_index |-> 7999, likes_count |-> 25, comments_count |-> 7,
       shares_count |-> 3, time_spent_on_post |-> 120,
       night_usage_minutes |-> 15]

R3 == [kind |-> "model", timestamp |-> 320,
       caption_text |-> "Nice walk",
       hashtags |-> "#family",
       sentiment_score |-> 6550, engagement_score |-> 4000,
       wellbeing_index |-> 3999, likes_count |-> 8, comments_count |-> 1,
       shares_count |-> 0, time_spent_on_post |-> 30,
       night_usage_minutes |-> 10]

R4 == [kind |-> "model", timestamp |-> 346,
       caption_text |-> "Worried. Sleep-deprived, tired!",
       hashtags |-> "#stress",
       sentiment_score |-> 3000, engagement_score |-> 6000,
       wellbeing_index |-> 6000, likes_count |-> 35, comments_count |-> 9,
       shares_count |-> 2, time_spent_on_post |-> 300,
       night_usage_minutes |-> 120]

RecordPool == {R1, R2, R3, R4}

\* Sequences over S of length at most n.
SeqUpTo(S, n) == UNION {[1..k -> S] : k \in 0..n}

\* AnalysisRequest.data_points: List[InputDataPoint]
Batches == SeqUpTo(RecordPool, MaxBatch)

\* Batches of more records than the scatter series shows: out of timestamp
\* order, in timestamp order, and of seven records.
LongBatches ==
    {<<R2, R1, R3, R4, R1, R3>>,
     <<R3, R1, R1, R2, R2, R2>>,
     <<R2, R2, R4, R3, R1, R3, R4>>}

None == <<>>

Some(v) == <<v>>

\* ChartDataPoint: every field Optional with default None.
ChartDataPoint ==
    [date |-> None, sentiment_score |-> None, category |-> None,
     percentage |-> None, likes |-> None, comments |-> None,
     emotional_tone |-> None, word |-> None, frequency |-> None,
     id |-> None, text |-> None]

\* ChartData: value, range and status Optional with default None.
ChartData(chart_type, title, data) ==
    [chart_type |-> chart_type, title |-> title, data |-> data,
     value |-> None, range |-> None, status |-> None]

(***************************************************************************)
(* data_processor.py: DataProcessor.                                       *)
(***************************************************************************)
\* DataProcessor.__init__: self.mental_health_keywords
mental_health_keywords ==
    [anxiety |-> <<"anxiety", "worried", "nervous", "panic", "stress",
                   "overwhelmed">>,
     depression |-> <<"depressed", "sad", "down", "hopeless", "empty",
                      "worthless">>,
     stress |-> <<"stressed", "pressure", "deadline", "overwhelmed",
                  "burnout", "exhausted">>]

\* The keys of the `categories` dict, in insertion order.
CategoryOrder == <<"Anxiety", "Stress", "Depression">>

\* The keyword list each category is tested against.
KeywordsOf(category) ==
    CASE category = "Anxiety" -> mental_health_keywords.anxiety
      [] category = "Stress" -> mental_health_keywords.stress
      [] category = "Depression" -> mental_health_keywords.depression

\* The local list stress_words of _analyze_topics.
stress_words ==
    <<"workload", "deadline", "sleep", "balance", "family", "exercise",
      "burnout", "pressure", "stress", "tired", "overwhelmed", "anxious",
      "worried", "exhausted">>

\* Timestamp.date(): the calendar day of a timestamp.
DateOf(ts) == ts \div 24 + 1

DigitStr == <<"0", "1", "2", "3", "4", "5", "6", "7", "8", "9">>

\* str(datetime.date) for a day of January 2025.
DateStr(d) == "2025-01-" \o DigitStr[(d \div 10) + 1] \o DigitStr[(d % 10) + 1]

\* s without its i-th element.
RemoveAt(s, i) == SubSeq(s, 1, i - 1) \o SubSeq(s, i + 1, Len(s))

\* The index of the first occurrence of the row r in rows.
FirstIndex(rows, r) ==
    CHOOSE i \in 1..Len(rows) :
        rows[i] = r /\ \A j \in 1..(i - 1) : rows[j] # r

\* process_data without its sort: the rows stay as submitted.
sort_values_none(rows) == {rows}

\* df.sort_values('timestamp'): every arrangement of the rows in ascending
\* timestamp order.  The default sort kind is quicksort, which does not
\* promise the relative order of rows with equal timestamps.  (Equal rows
\* are interchangeable, so the choice is among the distinct rows of the
\* least timestamp.)
RECURSIVE sort_values(_)
sort_values(rows) ==
    IF rows = <<>> THEN {<<>>}
    ELSE LET first == {rows[i] : i \in {i \in 1..Len(rows) :
                          \A j \in 1..Len(rows) :
                              rows[i].timestamp <= rows[j].timestamp}}
         IN  UNION {{<<r>> \o rest :
                        rest \in sort_values(RemoveAt(rows, FirstIndex(rows, r)))}
                        : r \in first}

\* The smallest element of a non-empty set of integers.
MinOf(S) == CHOOSE x \in S : \A y \in S : x <= y

\* The elements of a set of integers in ascending order.
RECURSIVE SortedKeys(_)
SortedKeys(S) ==
    IF S = {} THEN <<>> ELSE <<MinOf(S)>> \o SortedKeys(S \ {MinOf(S)})

\* One group of df.groupby('date').agg({...}): means and sums over the rows
\* of one date.
DailyAggregate(date, rows) ==
    [date |-> date,
     sentiment_score |-> MeanOf(rows, "sentiment_score"),
     engagement_score |-> MeanOf(rows, "engagement_score"),
     wellbeing_index |-> MeanOf(rows, "wellbeing_index"),
     likes_count |-> SumSeq(Col(rows, "likes_count")),
     comments_count |-> SumSeq(Col(rows, "comments_count")),
     shares_count |-> SumSeq(Col(rows, "shares_count")),
     time_spent_on_post |-> SumSeq(Col(rows, "time_spent_on_post")),
     night_usage_minutes |-> SumSeq(Col(rows, "night_usage_minutes"))]

\* _calculate_daily_aggregates grouping by the timestamp instead of its
\* date: one aggregate per distinct timestamp.
_calculate_daily_aggregates_by_timestamp(df) ==
    LET keys == SortedKeys({df[i].timestamp : i \in 1..Len(df)})
    IN  [k \in 1..Len(keys) |->
            DailyAggregate(DateOf(keys[k]),
                SelectSeq(df, LAMBDA row : row.timestamp = keys[k]))]

\* DataProcessor._calculate_daily_aggregates: groupby sorts the group keys.
_calculate_daily_aggregates(df) ==
    LET keys == SortedKeys({DateOf(df[i].timestamp) : i \in 1..Len(df)})
    IN  [k \in 1..Len(keys) |->
            DailyAggregate(keys[k],
                SelectSeq(df, LAMBDA row : DateOf(row.timestamp) = keys[k]))]

\* combined_text of a row: f"{text} {hashtags}", both lowercased.
CombinedText(caption_text, hashtags) ==
    Lower(caption_text) \o " " \o Lower(hashtags)

\* any(keyword in combined_text for keyword in keywords)
AnyKeywordIn(keywords, combined_text) ==
    \E k \in 1..Len(keywords) : Contains(keywords[k], combined_text)

\* The texts of the rows, and the test of lines 81, 85 and 89 tabulated
\* over them (each text is scanned once).
RowTexts == {<<r.caption_text, r.hashtags>> : r \in RecordPool}

KeywordHits ==
    [t \in RowTexts |->
        [category \in {CategoryOrder[k] : k \in 1..Len(CategoryOrder)} |->
            AnyKeywordIn(KeywordsOf(category), CombinedText(t[1], t[2]))]]

\* Whether a row counts toward a category.
RowMatches(row, category) ==
    KeywordHits[<<row.caption_text, row.hashtags>>][category]

\* _extract_mental_health_indicators with the three tests chained by elif:
\* a row counts toward the first category it matches only.
_extract_mental_health_indicators_elif(df) ==
    LET total_posts == Len(df)
        earlier(category) ==
            {CategoryOrder[j] : j \in {j \in 1..Len(CategoryOrder) :
                \E k \in 1..Len(CategoryOrder) :
                    j < k /\ CategoryOrder[k] = category}}
        count(category) ==
            Len(SelectSeq(df, LAMBDA row :
                    /\ RowMatches(row, category)
                    /\ \A c \in earlier(category) : ~RowMatches(row, c)))
    IN  [category \in {CategoryOrder[k] : k \in 1..Len(CategoryOrder)} |->
            [num |-> count(category) * 100, den |-> total_posts]]

\* DataProcessor._extract_mental_health_indicators
_extract_mental_health_indicators(df) ==
    LET total_posts == Len(df)
        count(category) ==
            Len(SelectSeq(df, LAMBDA row : RowMatches(row, category)))
    IN  [category \in {CategoryOrder[k] : k \in 1..Len(CategoryOrder)} |->
            [num |-> count(category) * 100, den |-> total_posts]]

\* DataProcessor._analyze_engagement_patterns
_analyze_engagement_patterns(df) ==
    [i \in 1..Len(df) |->
        [likes |-> df[i].likes_count,
         comments |-> df[i].comments_count,
         emotional_tone |-> [num |-> df[i].sentiment_score, den |-> 100]]]

\* The tokens of a row's text f"{caption_text} {hashtags}": lines 117 and
\* 124-125, tabulated over the texts of the rows.
Tokens ==
    [t \in RowTexts |-> Split(CleanText(t[1] \o " " \o t[2]))]

RowWords(row) == Tokens[<<row.caption_text, row.hashtags>>]

RECURSIVE AllWords(_)
AllWords(df) ==
    IF df = <<>> THEN <<>> ELSE RowWords(Head(df)) \o AllWords(Tail(df))

\* Counter(words)[word]
CountOf(words, word) == Len(SelectSeq(words, LAMBDA w : w = word))

\* A sort by descending frequency that is not stable: an item is placed
\* before the earlier items of its own frequency.
RECURSIVE SortedByFrequency_unstable(_)
SortedByFrequency_unstable(items) ==
    IF items = <<>> THEN <<>>
    ELSE LET rest == SortedByFrequency_unstable(SubSeq(items, 1, Len(items) - 1))
             last == items[Len(items)]
             before == SelectSeq(rest, LAMBDA it : it.frequency > last.frequency)
             after == SelectSeq(rest, LAMBDA it : it.frequency <= last.frequency)
         IN  before \o <<last>> \o after

\* sorted(items, key=frequency, reverse=True): a stable insertion of each
\* item after the items whose frequency is at least its own.
RECURSIVE SortedByFrequency(_)
SortedByFrequency(items) ==
    IF items = <<>> THEN <<>>
    ELSE LET rest == SortedByFrequency(SubSeq(items, 1, Len(items) - 1))
             last == items[Len(items)]
             before == SelectSeq(rest, LAMBDA it : it.frequency >= last.frequency)
             after == SelectSeq(rest, LAMBDA it : it.frequency < last.frequency)
         IN  before \o <<last>> \o after

\* The distinct words of a list in the order of their first appearance.
RECURSIVE FirstAppearances(_)
FirstAppearances(words) ==
    IF words = <<>> THEN <<>>
    ELSE LET rest == FirstAppearances(SubSeq(words, 1, Len(words) - 1))
             last == words[Len(words)]
         IN  IF \E k \in 1..Len(rest) : rest[k] = last THEN rest
             ELSE Append(rest, last)

\* _analyze_topics filtering the Counter instead of the vocabulary
\* ({word: n for word, n in word_freq.items() if word in stress_words}):
\* words of equal frequency come in the order the texts mention them.
_analyze_topics_by_appearance(df) ==
    LET words == AllWords(df)
        present == SelectSeq(FirstAppearances(words),
                       LAMBDA w : \E k \in 1..Len(stress_words) : stress_words[k] = w)
        stress_word_freq ==
            [k \in 1..Len(present) |->
                [word |-> present[k], frequency |-> CountOf(words, present[k])]]
        sorted_words == SortedByFrequency(stress_word_freq)
    IN  SubSeq(sorted_words, 1,
               IF Len(sorted_words) < TopWords THEN Len(sorted_words) ELSE TopWords)

\* DataProcessor._analyze_topics
_analyze_topics(df) ==
    LET words == AllWords(df)
        present == SelectSeq(stress_words, LAMBDA w : CountOf(words, w) > 0)
        stress_word_freq ==
            [k \in 1..Len(present) |->
                [word |-> present[k], frequency |-> CountOf(words, present[k])]]
        sorted_words == SortedByFrequency(stress_word_freq)
    IN  SubSeq(sorted_words, 1,
               IF Len(sorted_words) < TopWords THEN Len(sorted_words) ELSE TopWords)

\* The ladder with strict comparisons: a mean equal to a threshold falls
\* to the status below it.
StatusOf_strict(avg_wellbeing) ==
    IF avg_wellbeing.num > 80 * avg_wellbeing.den THEN "Excellent"
    ELSE IF avg_wellbeing.num > 60 * avg_wellbeing.den THEN "Good"
    ELSE IF avg_wellbeing.num > 40 * avg_wellbeing.den THEN "Stable"
    ELSE "Needs Attention"

\* The threshold ladder of _calculate_wellbeing_metrics.
StatusOf(avg_wellbeing) ==
    IF RatGeq(avg_wellbeing, 80) THEN "Excellent"
    ELSE IF RatGeq(avg_wellbeing, 60) THEN "Good"
    ELSE IF RatGeq(avg_wellbeing, 40) THEN "Stable"
    ELSE "Needs Attention"

\* DataProcessor._calculate_wellbeing_metrics
_calculate_wellbeing_metrics(df) ==
    [wellbeing_score |-> MeanOf(df, "wellbeing_index"),
     sentiment_score |-> MeanOf(df, "sentiment_score"),
     engagement_score |-> MeanOf(df, "engagement_score"),
     status |-> StatusOf(MeanOf(df, "wellbeing_index"))]

\* dp.dict() of a pydantic object.
Dict(dp) == [dp EXCEPT !.kind = "dict"]

\* hasattr(dp, 'dict'): true of a pydantic object, false of a dict.
HasDict(dp) == dp.kind = "model"

\* Whether process_data raises: `dp.dict()` on a dict raises
\* AttributeError, and df['timestamp'] on the column-less frame built from
\* an empty list raises KeyError.
ProcessDataRaises(data_points) ==
    \/ \E i \in 1..Len(data_points) : ~HasDict(data_points[i])
    \/ Len(data_points) = 0

\* df['date'] = ... replacing the timestamp column by its date as well
\* (df['timestamp'] = df['timestamp'].dt.normalize()).
date_column_normalizing(df) ==
    [i \in 1..Len(df) |->
        [df[i] EXCEPT !.timestamp = 24 * (DateOf(df[i].timestamp) - 1)]
            @@ [date |-> DateOf(df[i].timestamp)]]

\* df['date'] = df['timestamp'].dt.date (line 55): the frame handed to
\* _calculate_daily_aggregates gets a column `date`, in place.
date_column(df) ==
    [i \in 1..Len(df) |-> df[i] @@ [date |-> DateOf(df[i].timestamp)]]

\* The dict process_data returns for the sorted frame df.  The stages after
\* _calculate_daily_aggregates, and raw_data, have the frame as that stage
\* left it.
ProcessedData(df) ==
    [daily_data |-> _calculate_daily_aggregates(df),
     mental_health_indicators |-> _extract_mental_health_indicators(date_column(df)),
     engagement_patterns |-> _analyze_engagement_patterns(date_column(df)),
     topic_analysis |-> _analyze_topics(date_column(df)),
     wellbeing_metrics |-> _calculate_wellbeing_metrics(date_column(df)),
     raw_data |-> date_column(df)]

\* DataProcessor.process_data: the dicts it can return when it does not raise.
process_data(data_points) ==
    {ProcessedData(df) :
        df \in sort_values([i \in 1..Len(data_points) |-> Dict(data_points[i])])}

\* The first n elements of s (s[:n]).
Take(s, n) == SubSeq(s, 1, IF Len(s) < n THEN Len(s) ELSE n)

\* prepare_chart_data building the scatter points with the sentiment in the
\* field sentiment_score and leaving the status of the gauge out.
prepare_chart_data_misfiled(processed_data) ==
    LET daily_data == processed_data.daily_data
        mental_health == processed_data.mental_health_indicators
        engagement == Take(processed_data.engagement_patterns, ScatterLimit)
        topics == processed_data.topic_analysis
        wellbeing == processed_data.wellbeing_metrics
        emotional_trend_data ==
            [k \in 1..Len(daily_data) |->
                [ChartDataPoint EXCEPT
                    !.date = Some(DateStr(daily_data[k].date)),
                    !.sentiment_score = Some(Round1(daily_data[k].sentiment_score))]]
        mental_health_data ==
            [k \in 1..Len(CategoryOrder) |->
                [ChartDataPoint EXCEPT
                    !.category = Some(CategoryOrder[k]),
                    !.percentage = Some(Round1(mental_health[CategoryOrder[k]]))]]
        engagement_data ==
            [k \in 1..Len(engagement) |->
                [ChartDataPoint EXCEPT
                    !.likes = Some(engagement[k].likes),
                    !.comments = Some(engagement[k].comments),
                    !.sentiment_score = Some(Round1(engagement[k].emotional_tone))]]
        topics_data ==
            [k \in 1..Len(topics) |->
                [ChartDataPoint EXCEPT
                    !.word = Some(topics[k].word),
                    !.frequency = Some(topics[k].frequency)]]
    IN  [emotional_trend |->
            ChartData("line", "Daily Sentiment Over Time", emotional_trend_data),
         mental_health_categories |->
            ChartData("pie", "Distribution of Anxiety/Stress/Depression Indicators",
                      mental_health_data),
         engagement_vs_mood |->
            ChartData("scatter", "Engagement vs Mood", engagement_data),
         topics_discussed |->
            ChartData("word_cloud", "Top Stress-Related Words", topics_data),
         wellbeing_index |->
            [ChartData("gauge", "Overall Wellbeing Score", <<>>) EXCEPT
                !.value = Some(Round1(wellbeing.wellbeing_score)),
                !.range = Some([min |-> 0, max |-> 100])],
         recommendations |->
            ChartData("text_cards", "Personalized Suggestions", <<>>)]

\* DataProcessor.prepare_chart_data
prepare_chart_data(processed_data) ==
    LET daily_data == processed_data.daily_data
        mental_health == processed_data.mental_health_indicators
        engagement == Take(processed_data.engagement_patterns, ScatterLimit)
        topics == processed_data.topic_analysis
        wellbeing == processed_data.wellbeing_metrics
        emotional_trend_data ==
            [k \in 1..Len(daily_data) |->
                [ChartDataPoint EXCEPT
                    !.date = Some(DateStr(daily_data[k].date)),
                    !.sentiment_score = Some(Round1(daily_data[k].sentiment_score))]]
        mental_health_data ==
            [k \in 1..Len(CategoryOrder) |->
                [ChartDataPoint EXCEPT
                    !.category = Some(CategoryOrder[k]),
                    !.percentage = Some(Round1(mental_health[CategoryOrder[k]]))]]
        engagement_data ==
            [k \in 1..Len(engagement) |->
                [ChartDataPoint EXCEPT
                    !.likes = Some(engagement[k].likes),
                    !.comments = Some(engagement[k].comments),
                    !.emotional_tone = Some(Round1(engagement[k].emotional_tone))]]
        topics_data ==
            [k \in 1..Len(topics) |->
                [ChartDataPoint EXCEPT
                    !.word = Some(topics[k].word),
                    !.frequency = Some(topics[k].frequency)]]
    IN  [emotional_trend |->
            ChartData("line", "Daily Sentiment Over Time", emotional_trend_data),
         mental_health_categories |->
            ChartData("pie", "Distribution of Anxiety/Stress/Depression Indicators",
                      mental_health_data),
         engagement_vs_mood |->
            ChartData("scatter", "Engagement vs Mood", engagement_data),
         topics_discussed |->
            ChartData("word_cloud", "Top Stress-Related Words", topics_data),
         wellbeing_index |->
            [ChartData("gauge", "Overall Wellbeing Score", <<>>) EXCEPT
                !.value = Some(Round1(wellbeing.wellbeing_score)),
                !.range = Some([min |-> 0, max |-> 100]),
                !.status = Some(wellbeing.status)],
         recommendations |->
            ChartData("text_cards", "Personalized Suggestions", <<>>)]

(***************************************************************************)
(* openai_service.py: OpenAIService.                                       *)
(***************************************************************************)
\* JSON values as json.loads returns them.
JStr(v) == [type |-> "string", v |-> v, items |-> <<>>]

JObj == [type |-> "object", v |-> "", items |-> <<>>]

JArr(items) == [type |-> "array", v |-> "", items |-> items]

\* The JSON value null (None once parsed).
JNull == [type |-> "null", v |-> "", items |-> <<>>]

\* The items the external generator may put in a list.
ItemPool == {JStr("Walk daily."), JNull, JObj}

\* What the external generator can do on one call: the call (or reading
\* its message) raises, its text is not JSON, or its text is a JSON value.
GenError == [kind |-> "error", json |-> JObj]

GenInvalidJson == [kind |-> "invalid_json", json |-> JObj]

GenValue(j) == [kind |-> "value", json |-> j]

GenBehaviours ==
    {GenError, GenInvalidJson, GenValue(JObj), GenValue(JStr("Walk daily."))}
        \cup {GenValue(JArr(items)) : items \in SeqUpTo(ItemPool, MaxItems)}

\* No call to the generator yet.
NoGen == [kind |-> "none", json |-> JObj]

\* OpenAIService._get_fallback_recommendations
_get_fallback_recommendations ==
    <<JStr("Try a 10-minute mindfulness meditation before starting your day."),
      JStr("Take a short walk after lunch to reduce mid-day stress."),
      JStr("Limit late-night screen time to improve sleep quality."),
      JStr("Reach out to a friend or colleague for social connection.")>>

\* _generate_recommendations accepting a list one item short and returning
\* it as it is (a partial list).
_generate_recommendations_partial(g) ==
    IF g.kind = "error" THEN _get_fallback_recommendations
    ELSE IF g.kind = "invalid_json" THEN _get_fallback_recommendations
    ELSE IF g.json.type = "array" /\ Len(g.json.items) >= NumRecommendations - 1
         THEN SubSeq(g.json.items, 1,
                     IF Len(g.json.items) < NumRecommendations
                     THEN Len(g.json.items) ELSE NumRecommendations)
         ELSE _get_fallback_recommendations

\* OpenAIService._generate_recommendations, given what the generator did.
_generate_recommendations(g) ==
    IF g.kind = "error" THEN _get_fallback_recommendations
    ELSE IF g.kind = "invalid_json" THEN _get_fallback_recommendations
    ELSE IF g.json.type = "array" /\ Len(g.json.items) >= NumRecommendations
         THEN SubSeq(g.json.items, 1, NumRecommendations)
         ELSE _get_fallback_recommendations

\* Whether ChartDataPoint(id=..., text=rec) raises pydantic's
\* ValidationError: text is Optional[str], and a JSON object is no str.
TextRejected(rec) == rec.type \notin {"string", "null"}

\* analyze_mental_health_data lines 32-35 raise when one card is rejected.
CardsRaise(recommendations) ==
    \E i \in 1..Len(recommendations) : TextRejected(recommendations[i])

\* [ChartDataPoint(id=i+1, text=rec) for i, rec in enumerate(recommendations)]
Cards(recommendations) ==
    [i \in 1..Len(recommendations) |->
        [ChartDataPoint EXCEPT
            !.id = Some(i),
            !.text = IF recommendations[i].type = "string"
                     THEN Some(recommendations[i].v) ELSE None]]

\* analyze_mental_health_data lines 32-44: the AnalysisResponse built from
\* chart_data once the recommendations are in.
AnalysisResponse(chart_data, recommendations) ==
    [chart_data EXCEPT !.recommendations.data = Cards(recommendations)]

\* A value of random.random(), a rational [num, den] in [0, 1).
U(num, den) == [num |-> num, den |-> den]

\* Random sources: the stream of values random.random() yields, repeated
\* cyclically (all least, all nearly 1, all one half, mixtures, and one
\* nearly 1 throughout a record and least throughout the next).
RandomSources ==
    {<<U(0, 1)>>, <<U(999999, 1000000)>>, <<U(1, 2)>>,
     <<U(0, 1), U(999999, 1000000)>>,
     <<U(999999, 1000000), U(1, 3), U(0, 1)>>,
     [k \in 1..48 |-> IF k <= 24 THEN U(999999, 1000000) ELSE U(0, 1)]}

\* The k-th value a random source yields.
Draw(rs, k) == rs[((k - 1) % Len(rs)) + 1]

\* random.randint(a, b) on a value u of the source: a + floor(u * (b - a + 1)),
\* with one value too many in the range.
randint_wide(a, b, u) == a + ((u.num * (b - a + 2)) \div u.den)

\* random.randint(a, b) on a value u of the source: a + floor(u * (b - a + 1)).
randint(a, b, u) == a + ((u.num * (b - a + 1)) \div u.den)

\* round(random.uniform(a, b), 1) in tenths: uniform is a + (b - a) * u.
uniform_round1(a, b, u) ==
    RoundHalfEven(10 * (a * u.den + (b - a) * u.num), u.den)

\* round(random.uniform(0.7, 1.0), 2) in hundredths.
confidence_round2(u) == RoundHalfEven(70 * u.den + 30 * u.num, u.den)

\* The number of values of the source one record of the fallback consumes
\* (the calls of lines 149-188).
DrawsPerRecord == 24

\* The i-th record of _get_fallback_sample_data (its numeric fields): the
\* value of each field comes from the draw its call makes, in source order.
FallbackRecord(i, rs) ==
    LET u(k) == Draw(rs, DrawsPerRecord * (i - 1) + k)
    IN  [post_id |-> i,
         sentiment_score |-> uniform_round1(20, 80, u(8)),
         emotion_confidence |-> confidence_round2(u(9)),
         likes_count |-> randint(5, 50, u(10)),
         comments_count |-> randint(0, 15, u(11)),
         shares_count |-> randint(0, 8, u(12)),
         saved_count |-> randint(0, 5, u(13)),
         average_comment_sentiment |-> uniform_round1(20, 80, u(14)),
         engagement_score |-> uniform_round1(30, 95, u(15)),
         time_spent_on_post |-> randint(30, 300, u(16)),
         comments_read_count |-> randint(0, 10, u(17)),
         num_sessions_per_day |-> randint(5, 15, u(19)),
         avg_session_duration |-> uniform_round1(8, 25, u(20)),
         night_usage_minutes |-> randint(10, 120, u(21)),
         label_confidence |-> confidence_round2(u(22)),
         wellbeing_index |-> uniform_round1(30, 90, u(23))]

\* OpenAIService._get_fallback_sample_data
_get_fallback_sample_data(num_posts, rs) ==
    [i \in 1..num_posts |-> FallbackRecord(i, rs)]

\* What generate_sample_data returns: the list and where it came from.
SampleData(source, data) == [source |-> source, data |-> data]

NoSamples == SampleData("none", <<>>)

\* generate_sample_data trusting any non-empty list the generator returns.
generate_sample_data_any_list(num_posts, g, rs) ==
    IF g.kind = "error" THEN SampleData("fallback", _get_fallback_sample_data(num_posts, rs))
    ELSE IF g.kind = "invalid_json"
    THEN SampleData("fallback", _get_fallback_sample_data(num_posts, rs))
    ELSE IF g.json.type = "array" /\ Len(g.json.items) >= 1
         THEN SampleData("generator",
                  SubSeq(g.json.items, 1,
                         IF Len(g.json.items) < num_posts
                         THEN Len(g.json.items) ELSE num_posts))
         ELSE SampleData("fallback", _get_fallback_sample_data(num_posts, rs))

\* OpenAIService.generate_sample_data, given what the generator did and the
\* random source the fallback draws from.
generate_sample_data(num_posts, g, rs) ==
    IF g.kind = "error" THEN SampleData("fallback", _get_fallback_sample_data(num_posts, rs))
    ELSE IF g.kind = "invalid_json"
    THEN SampleData("fallback", _get_fallback_sample_data(num_posts, rs))
    ELSE IF g.json.type = "array" /\ Len(g.json.items) >= num_posts
         THEN SampleData("generator", SubSeq(g.json.items, 1, num_posts))
         ELSE SampleData("fallback", _get_fallback_sample_data(num_posts, rs))

(***************************************************************************)
(* main.py                                                                 *)
(***************************************************************************)
\* get_fallback_analysis: the canonical fallback AnalysisResponse.
get_fallback_analysis ==
    [emotional_trend |->
        ChartData("line", "Daily Sentiment Over Time",
            <<[ChartDataPoint EXCEPT !.date = Some("2025-01-15"), !.sentiment_score = Some(650)],
              [ChartDataPoint EXCEPT !.date = Some("2025-01-16"), !.sentiment_score = Some(720)],
              [ChartDataPoint EXCEPT !.date = Some("2025-01-17"), !.sentiment_score = Some(580)],
              [ChartDataPoint EXCEPT !.date = Some("2025-01-18"), !.sentiment_score = Some(810)],
              [ChartDataPoint EXCEPT !.date = Some("2025-01-19"), !.sentiment_score = Some(690)],
              [ChartDataPoint EXCEPT !.date = Some("2025-01-20"), !.sentiment_score = Some(750)],
              [ChartDataPoint EXCEPT !.date = Some("2025-01-21"), !.sentiment_score = Some(830)]>>),
     mental_health_categories |->
        ChartData("pie", "Distribution of Anxiety/Stress/Depression Indicators",
            <<[ChartDataPoint EXCEPT !.category = Some("Anxiety"), !.percentage = Some(350)],
              [ChartDataPoint EXCEPT !.category = Some("Stress"), !.percentage = Some(450)],
              [ChartDataPoint EXCEPT !.category = Some("Depression"), !.percentage = Some(200)]>>),
     engagement_vs_mood |->
        ChartData("scatter", "Engagement vs Mood",
            <<[ChartDataPoint EXCEPT !.likes = Some(12), !.comments = Some(3), !.emotional_tone = Some(650)],
              [ChartDataPoint EXCEPT !.likes = Some(25), !.comments = Some(7), !.emotional_tone = Some(720)],
              [ChartDataPoint EXCEPT !.likes = Some(8), !.comments = Some(1), !.emotional_tone = Some(580)],
              [ChartDataPoint EXCEPT !.likes = Some(35), !.comments = Some(9), !.emotional_tone = Some(810)],
              [ChartDataPoint EXCEPT !.likes = Some(18), !.comments = Some(4), !.emotional_tone = Some(690)]>>),
     topics_discussed |->
        ChartData("word_cloud", "Top Stress-Related Words",
            <<[ChartDataPoint EXCEPT !.word = Some("workload"), !.frequency = Some(42)],
              [ChartDataPoint EXCEPT !.word = Some("deadline"), !.frequency = Some(37)],
              [ChartDataPoint EXCEPT !.word = Some("sleep"), !.frequency = Some(30)],
              [ChartDataPoint EXCEPT !.word = Some("balance"), !.frequency = Some(25)],
              [ChartDataPoint EXCEPT !.word = Some("family"), !.frequency = Some(21)],
              [ChartDataPoint EXCEPT !.word = Some("exercise"), !.frequency = Some(18)],
              [ChartDataPoint EXCEPT !.word = Some("burnout"), !.frequency = Some(14)]>>),
     wellbeing_index |->
        [ChartData("gauge", "Overall Wellbeing Score", <<>>) EXCEPT
            !.value = Some(760),
            !.range = Some([min |-> 0, max |-> 100]),
            !.status = Some("Stable")],
     recommendations |->
        ChartData("text_cards", "Personalized Suggestions",
            <<[ChartDataPoint EXCEPT !.id = Some(1),
                  !.text = Some("Try a 10-minute mindfulness meditation before starting your day.")],
              [ChartDataPoint EXCEPT !.id = Some(2),
                  !.text = Some("Take a short walk after lunch to reduce mid-day stress.")],
              [ChartDataPoint EXCEPT !.id = Some(3),
                  !.text = Some("Limit late-night screen time to improve sleep quality.")],
              [ChartDataPoint EXCEPT !.id = Some(4),
                  !.text = Some("Reach out to a friend or colleague for social connection.")]>>)]

\* The datasets a /analyze-batch request is made of.
DatasetPool ==
    {<<>>, <<R3, R2>>} \cup {[i \in 1..MinDataPoints |-> r] : r \in {R1, R2}}

\* Placeholders for what has not been computed yet.
NoProcessed ==
    [daily_data |-> <<>>,
     mental_health_indicators |->
        [category \in {CategoryOrder[k] : k \in 1..Len(CategoryOrder)} |->
            [num |-> 0, den |-> 1]],
     engagement_patterns |-> <<>>,
     topic_analysis |-> <<>>,
     wellbeing_metrics |->
        [wellbeing_score |-> [num |-> 0, den |-> 1],
         sentiment_score |-> [num |-> 0, den |-> 1],
         engagement_score |-> [num |-> 0, den |-> 1],
         status |-> ""],
     raw_data |-> <<>>]

NoChart ==
    [emotional_trend |-> ChartData("", "", <<>>),
     mental_health_categories |-> ChartData("", "", <<>>),
     engagement_vs_mood |-> ChartData("", "", <<>>),
     topics_discussed |-> ChartData("", "", <<>>),
     wellbeing_index |-> ChartData("", "", <<>>),
     recommendations |-> ChartData("", "", <<>>)]

NoOut == [kind |-> "none", status |-> 0, detail |-> "", body |-> NoChart]

\* A normal response carrying the AnalysisResponse `body`.
Response(body) == [kind |-> "response", status |-> 200, detail |-> "", body |-> body]

\* raise HTTPException(status_code=400, detail=...), re-raised by
\* `except HTTPException: raise`.
HTTPException(status_code, detail) ==
    [kind |-> "http_error", status |-> status_code, detail |-> detail, body |-> NoChart]

\* An exception leaving the called function.
Raised == [kind |-> "raised", status |-> 0, detail |-> "", body |-> NoChart]

\* The list `results` returned by /analyze-batch (it is in the variable results).
ResponseList == [kind |-> "responses", status |-> 200, detail |-> "", body |-> NoChart]

\* The value returned by a direct call of the DataProcessor.
Returned(body) == [kind |-> "returned", status |-> 0, detail |-> "", body |-> body]

\* The loops of main.py lines 79-84 and 141-146.
DataDicts(data_points) ==
    [i \in 1..Len(data_points) |->
        IF HasDict(data_points[i]) THEN Dict(data_points[i]) ELSE data_points[i]]

\* The dict /generate-data returns (data_points is in the variable samples,
\* total_points is its length).
SampleResponse == [kind |-> "sample_response", status |-> 200, detail |-> "", body |-> NoChart]

\* OpenAIService.__init__ and DataProcessor.__init__: the attributes of the
\* module-level service object.
OpenAIService ==
    [client |-> "OpenAI(api_key)",
     data_processor |-> [mental_health_keywords |-> mental_health_keywords]]

\* The module-level generator of the random module: the stream it was
\* seeded with, unknown (<<>>) until a request first draws from it, and the
\* number of values drawn so far (modulo the length of the stream).
UnreadRandom == [source |-> <<>>, drawn |-> 0]

\* The objects of the process that every request can reach.
SharedObjects == [openai_service |-> OpenAIService, random |-> UnreadRandom]

\* The concurrent requests.
Client == {1, 2}

\* A request not yet received.
IdleClient ==
    [entry |-> "none", pc |-> "idle", input |-> <<>>, num_posts |-> 0,
     answer |-> NoGen, out |-> NoOut, results |-> <<>>,
     samples |-> NoSamples, draws |-> <<>>]

Init ==
    /\ entry = "none"
    /\ pc = "idle"
    /\ req = <<>>
    /\ idx = 0
    /\ processed = NoProcessed
    /\ chart = NoChart
    /\ gen = NoGen
    /\ recs = <<>>
    /\ genCalls = 0
    /\ procCalls = 0
    /\ results = <<>>
    /\ out = NoOut
    /\ numPosts = 0
    /\ samples = NoSamples
    /\ shared = SharedObjects
    /\ clients = [c \in Client |-> IdleClient]

\* analyze_mental_health_data lines 22-29: process_data and
\* prepare_chart_data, up to the await of _generate_recommendations.
StartAnalysis(data_points) ==
    \E p \in process_data(data_points) :
        /\ processed' = p
        /\ chart' = prepare_chart_data(p)
        /\ procCalls' = procCalls + 1
        /\ pc' = "await_gen"

\* POST /analyze without `except HTTPException: raise`: the generic handler
\* answers a rejected request with the fallback analysis.
AnalyzeRequest_swallow(data_points) ==
    /\ pc = "idle"
    /\ entry' = "analyze"
    /\ req' = data_points
    /\ IF Len(data_points) < MinDataPoints
       THEN /\ out' = Response(get_fallback_analysis)
            /\ pc' = "done"
            /\ UNCHANGED <<processed, chart, procCalls>>
       ELSE IF ProcessDataRaises(DataDicts(data_points))
       THEN /\ out' = Response(get_fallback_analysis)
            /\ pc' = "done"
            /\ procCalls' = procCalls + 1
            /\ UNCHANGED <<processed, chart>>
       ELSE /\ StartAnalysis(DataDicts(data_points))
            /\ UNCHANGED out
    /\ UNCHANGED <<idx, gen, recs, genCalls, results>>

\* POST /analyze without its generic `except Exception`: an exception of
\* the analysis leaves the handler.
AnalyzeRequest_propagate(data_points) ==
    /\ pc = "idle"
    /\ entry' = "analyze"
    /\ req' = data_points
    /\ IF Len(data_points) = 0
       THEN /\ out' = HTTPException(400, "No data points provided")
            /\ pc' = "done"
            /\ UNCHANGED <<processed, chart, procCalls>>
       ELSE IF Len(data_points) < MinDataPoints
       THEN /\ out' = HTTPException(400,
                        "At least 5 data points required for meaningful analysis")
            /\ pc' = "done"
            /\ UNCHANGED <<processed, chart, procCalls>>
       ELSE IF ProcessDataRaises(DataDicts(data_points))
       THEN /\ out' = Raised
            /\ pc' = "done"
            /\ procCalls' = procCalls + 1
            /\ UNCHANGED <<processed, chart>>
       ELSE /\ StartAnalysis(DataDicts(data_points))
            /\ UNCHANGED out
    /\ UNCHANGED <<idx, gen, recs, genCalls, results>>

\* POST /analyze, up to its return or to the await of the generator.
AnalyzeRequest(data_points) ==
    /\ pc = "idle"
    /\ entry' = "analyze"
    /\ req' = data_points
    /\ IF Len(data_points) = 0
       THEN /\ out' = HTTPException(400, "No data points provided")
            /\ pc' = "done"
            /\ UNCHANGED <<processed, chart, procCalls>>
       ELSE IF Len(data_points) < MinDataPoints
       THEN /\ out' = HTTPException(400,
                        "At least 5 data points required for meaningful analysis")
            /\ pc' = "done"
            /\ UNCHANGED <<processed, chart, procCalls>>
       ELSE IF ProcessDataRaises(DataDicts(data_points))
       THEN /\ out' = Response(get_fallback_analysis)
            /\ pc' = "done"
            /\ procCalls' = procCalls + 1
            /\ UNCHANGED <<processed, chart>>
       ELSE /\ StartAnalysis(DataDicts(data_points))
            /\ UNCHANGED out
    /\ UNCHANGED <<idx, gen, recs, genCalls, results>>

\* POST /analyze-batch: the handler is entered.
BatchRequest(requests) ==
    /\ pc = "idle"
    /\ entry' = "batch"
    /\ req' = requests
    /\ idx' = 0
    /\ results' = <<>>
    /\ pc' = "batch_loop"
    /\ UNCHANGED <<processed, chart, gen, recs, genCalls, procCalls, out>>

\* The loop of analyze_batch_data without its inner try: a dataset that
\* raises ends the batch in the outer handler, which returns [fallback].
BatchStep_abort ==
    /\ pc = "batch_loop"
    /\ idx < Len(req)
    /\ IF ProcessDataRaises(DataDicts(req[idx + 1]))
       THEN /\ results' = <<get_fallback_analysis>>
            /\ idx' = Len(req)
            /\ procCalls' = procCalls + 1
            /\ UNCHANGED <<pc, processed, chart>>
       ELSE /\ StartAnalysis(DataDicts(req[idx + 1]))
            /\ UNCHANGED <<results, idx>>
    /\ UNCHANGED <<entry, req, gen, recs, genCalls, out, sampleVars, sharedVars>>

\* One iteration of the loop of analyze_batch_data, up to its end or to the
\* await of the generator.
BatchStep ==
    /\ pc = "batch_loop"
    /\ idx < Len(req)
    /\ IF ProcessDataRaises(DataDicts(req[idx + 1]))
       THEN /\ results' = Append(results, get_fallback_analysis)
            /\ idx' = idx + 1
            /\ procCalls' = procCalls + 1
            /\ UNCHANGED <<pc, processed, chart>>
       ELSE /\ StartAnalysis(DataDicts(req[idx + 1]))
            /\ UNCHANGED <<results, idx>>
    /\ UNCHANGED <<entry, req, gen, recs, genCalls, out, sampleVars, sharedVars>>

\* analyze_batch_data line 156: return results.
BatchReturn ==
    /\ pc = "batch_loop"
    /\ idx = Len(req)
    /\ out' = ResponseList
    /\ pc' = "done"
    /\ UNCHANGED <<entry, req, idx, processed, chart, gen, recs, genCalls,
                   procCalls, results, sampleVars, sharedVars>>

\* A direct call of OpenAIService.analyze_mental_health_data, up to its
\* raise or to the await of the generator.
ServiceCall(data_points) ==
    /\ pc = "idle"
    /\ entry' = "service"
    /\ req' = data_points
    /\ IF ProcessDataRaises(data_points)
       THEN /\ out' = Raised
            /\ pc' = "done"
            /\ procCalls' = procCalls + 1
            /\ UNCHANGED <<processed, chart>>
       ELSE /\ StartAnalysis(data_points)
            /\ UNCHANGED out
    /\ UNCHANGED <<idx, gen, recs, genCalls, results>>

\* A direct call of DataProcessor.process_data followed by
\* prepare_chart_data on its result.
ProcessCall(data_points) ==
    /\ pc = "idle"
    /\ entry' = "process"
    /\ req' = data_points
    /\ IF ProcessDataRaises(data_points)
       THEN /\ out' = Raised
            /\ UNCHANGED <<processed, chart>>
       ELSE \E p \in process_data(data_points) :
                /\ processed' = p
                /\ chart' = prepare_chart_data(p)
                /\ out' = Returned(prepare_chart_data(p))
    /\ procCalls' = procCalls + 1
    /\ pc' = "done"
    /\ UNCHANGED <<idx, gen, recs, genCalls, results>>

\* analyze_mental_health_data calling the generator a second time when the
\* first answer is not a list of four items.
GenRespond_retry(g) ==
    IF genCalls = 0 /\ ~(g.kind = "value" /\ g.json.type = "array"
                         /\ Len(g.json.items) >= NumRecommendations)
    THEN /\ pc = "await_gen"
         /\ gen' = g
         /\ genCalls' = genCalls + 1
         /\ UNCHANGED <<entry, pc, req, idx, processed, chart, recs, procCalls,
                        results, out>>
    ELSE
       /\ pc = "await_gen"
       /\ gen' = g
       /\ genCalls' = genCalls + 1
       /\ LET recommendations == _generate_recommendations(g)
              raised == CardsRaise(recommendations)
              response == AnalysisResponse(chart, recommendations)
              result == IF raised THEN get_fallback_analysis ELSE response
          IN  /\ recs' = recommendations
              /\ chart' = IF raised THEN chart ELSE response
              /\ IF entry = "batch"
                 THEN /\ results' = Append(results, result)
                      /\ idx' = idx + 1
                      /\ pc' = "batch_loop"
                      /\ UNCHANGED out
                 ELSE /\ out' = IF entry = "analyze" THEN Response(result)
                                ELSE IF raised THEN Raised ELSE Response(response)
                      /\ pc' = "done"
                      /\ UNCHANGED <<results, idx>>
       /\ UNCHANGED <<entry, req, processed, procCalls>>

\* The generator answers (or fails) and analyze_mental_health_data runs from
\* its line 29 to its end; the caller then handles what it returned or raised.
GenRespond(g) ==
    /\ pc = "await_gen"
    /\ gen' = g
    /\ genCalls' = genCalls + 1
    /\ LET recommendations == _generate_recommendations(g)
           raised == CardsRaise(recommendations)
           response == AnalysisResponse(chart, recommendations)
           result == IF raised THEN get_fallback_analysis ELSE response
       IN  /\ recs' = recommendations
           /\ chart' = IF raised THEN chart ELSE response
           /\ IF entry = "batch"
              THEN /\ results' = Append(results, result)
                   /\ idx' = idx + 1
                   /\ pc' = "batch_loop"
                   /\ UNCHANGED out
              ELSE /\ out' = IF entry = "analyze" THEN Response(result)
                             ELSE IF raised THEN Raised ELSE Response(response)
                   /\ pc' = "done"
                   /\ UNCHANGED <<results, idx>>
    /\ UNCHANGED <<entry, req, processed, procCalls>>

\* POST /generate-data: the handler calls generate_sample_data, which runs
\* up to its call of the generator.
GenerateRequest(num_posts) ==
    /\ pc = "idle"
    /\ entry' = "generate"
    /\ numPosts' = num_posts
    /\ pc' = "await_sample"
    /\ UNCHANGED <<req, idx, processed, chart, gen, recs, genCalls, procCalls,
                   results, out, samples, sharedVars>>

\* The generator answers (or fails); generate_sample_data returns, by its
\* own handlers never raising, and the handler returns its dict.
SampleRespond(g, rs) ==
    /\ pc = "await_sample"
    /\ gen' = g
    /\ genCalls' = genCalls + 1
    /\ samples' = generate_sample_data(numPosts, g, rs)
    /\ out' = SampleResponse
    /\ pc' = "done"
    /\ UNCHANGED <<entry, req, idx, processed, chart, recs, procCalls, results,
                   numPosts, sharedVars>>

\* The argument of a direct call: pydantic objects, or the dicts made of them.
ServiceInputs ==
    {[i \in 1..Len(b) |-> [b[i] EXCEPT !.kind = k]] :
        b \in SeqUpTo(RecordPool, MaxServiceBatch), k \in {"model", "dict"}}

\* The requests and calls the model makes, and the generator's answers.
PostAnalyze ==
    /\ pc = "idle"
    /\ \E data_points \in Batches : AnalyzeRequest(data_points)
    /\ UNCHANGED <<sampleVars, sharedVars>>

PostAnalyzeBatch ==
    /\ pc = "idle"
    /\ \E requests \in SeqUpTo(DatasetPool, MaxDatasets) : BatchRequest(requests)
    /\ UNCHANGED <<sampleVars, sharedVars>>

CallService ==
    /\ pc = "idle"
    /\ \E data_points \in ServiceInputs : ServiceCall(data_points)
    /\ UNCHANGED <<sampleVars, sharedVars>>

CallProcessor ==
    /\ pc = "idle"
    /\ \E data_points \in Batches \cup LongBatches : ProcessCall(data_points)
    /\ UNCHANGED <<sampleVars, sharedVars>>

GeneratorAnswers ==
    /\ pc = "await_gen"
    /\ \E g \in GenBehaviours : GenRespond(g)
    /\ UNCHANGED <<sampleVars, sharedVars>>

\* The inputs of the concurrent requests and the generator's answers to them.
ClientBatches == {<<>>, <<R3, R2>>, [i \in 1..MinDataPoints |-> R1]}

ClientDatasets == {<< <<>> >>, <<[i \in 1..MinDataPoints |-> R1], <<R3, R2>> >>}

ClientGenBehaviours == {GenError, GenValue(JArr(<<>>)), GenValue(JArr(<<JObj, JObj>>))}

\* The random source as a request finds it: the stream (any, when no
\* request has drawn yet) from the next value to be drawn on.
RandomSeen(rs, drawn) == [k \in 1..Len(rs) |-> Draw(rs, drawn + k)]

\* A request's POST /analyze is handled.  The analysis of a batch that
\* passed the validation raises in process_data (ProcessDataRaises is true
\* of every list DataDicts makes), so the handler returns without reaching
\* the generator.
ClientAnalyze(c, data_points) ==
    /\ clients[c].pc = "idle"
    /\ ProcessDataRaises(DataDicts(data_points))
    /\ clients' = [clients EXCEPT ![c] =
          [@ EXCEPT
              !.entry = "analyze",
              !.input = data_points,
              !.pc = "done",
              !.out =
                  IF Len(data_points) = 0
                  THEN HTTPException(400, "No data points provided")
                  ELSE IF Len(data_points) < MinDataPoints
                  THEN HTTPException(400,
                          "At least 5 data points required for meaningful analysis")
                  ELSE Response(get_fallback_analysis)]]
    /\ UNCHANGED shared

\* A request's POST /analyze-batch is handled: every dataset raises in
\* process_data and gets the fallback.
ClientAnalyzeBatch(c, requests) ==
    /\ clients[c].pc = "idle"
    /\ \A i \in 1..Len(requests) : ProcessDataRaises(DataDicts(requests[i]))
    /\ clients' = [clients EXCEPT ![c] =
          [@ EXCEPT
              !.entry = "batch",
              !.input = requests,
              !.pc = "done",
              !.results = [i \in 1..Len(requests) |-> get_fallback_analysis],
              !.out = ResponseList]]
    /\ UNCHANGED shared

\* /generate-data keeping the requested count on the shared service object
\* (self.num_posts = num_posts) instead of in a local.
ClientGenerate_on_self(c, num_posts) ==
    /\ clients[c].pc = "idle"
    /\ clients' = [clients EXCEPT ![c] =
          [@ EXCEPT !.entry = "generate", !.num_posts = num_posts,
                    !.pc = "await_sample"]]
    /\ shared' = [shared EXCEPT !.openai_service =
          [client |-> @.client, data_processor |-> @.data_processor,
           num_posts |-> num_posts]]

\* A request's POST /generate-data is received and runs up to the call of
\* the generator.
ClientGenerate(c, num_posts) ==
    /\ clients[c].pc = "idle"
    /\ clients' = [clients EXCEPT ![c] =
          [@ EXCEPT !.entry = "generate", !.num_posts = num_posts,
                    !.pc = "await_sample"]]
    /\ UNCHANGED shared

\* The generator answers a request's call and generate_sample_data returns.
\* The fallback draws from the module-level random generator, advancing it.
ClientSampleRespond(c, g, rs) ==
    /\ clients[c].pc = "await_sample"
    /\ shared.random.source \in {<<>>, rs}
    /\ LET n == clients[c].num_posts
           seen == RandomSeen(rs, shared.random.drawn)
           sample_data == generate_sample_data(n, g, seen)
           used == sample_data.source = "fallback" /\ n > 0
       IN  /\ clients' = [clients EXCEPT ![c] =
                 [@ EXCEPT
                     !.answer = g,
                     !.samples = sample_data,
                     !.draws = IF used
                               THEN [k \in 1..(DrawsPerRecord * n) |-> Draw(seen, k)]
                               ELSE <<>>,
                     !.out = SampleResponse,
                     !.pc = "done"]]
           /\ shared' =
                 IF used
                 THEN [shared EXCEPT !.random =
                         [source |-> rs,
                          drawn |-> (shared.random.drawn + DrawsPerRecord * n) % Len(rs)]]
                 ELSE shared

PostGenerateData ==
    /\ pc = "idle"
    /\ \E num_posts \in 0..MaxPosts : GenerateRequest(num_posts)

SampleGeneratorAnswers ==
    /\ pc = "await_sample"
    /\ \E g \in GenBehaviours, rs \in RandomSources : SampleRespond(g, rs)

Next ==
    \/ PostAnalyze
    \/ PostAnalyzeBatch
    \/ BatchStep
    \/ BatchReturn
    \/ CallService
    \/ CallProcessor
    \/ GeneratorAnswers
    \/ PostGenerateData
    \/ SampleGeneratorAnswers

Spec == Init /\ [][Next]_vars

\* The variables of the single request followed by Spec.
requestVars ==
    <<entry, pc, req, idx, processed, chart, gen, recs, genCalls, procCalls,
      results, out, numPosts, samples>>

\* Concurrent requests: each is received and handled in the order the
\* event loop happens to run them.
ReceiveAnalyze ==
    /\ \E c \in Client, data_points \in ClientBatches : ClientAnalyze(c, data_points)
    /\ UNCHANGED requestVars

ReceiveAnalyzeBatch ==
    /\ \E c \in Client, requests \in ClientDatasets : ClientAnalyzeBatch(c, requests)
    /\ UNCHANGED requestVars

ReceiveGenerateData ==
    /\ \E c \in Client, num_posts \in 0..MaxClientPosts : ClientGenerate(c, num_posts)
    /\ UNCHANGED requestVars

ClientGeneratorAnswers ==
    /\ \E c \in Client, g \in ClientGenBehaviours, rs \in RandomSources :
          ClientSampleRespond(c, g, rs)
    /\ UNCHANGED requestVars

NextConcurrent ==
    \/ ReceiveAnalyze
    \/ ReceiveAnalyzeBatch
    \/ ReceiveGenerateData
    \/ ClientGeneratorAnswers

SpecConcurrent == Init /\ [][NextConcurrent]_vars

(***************************************************************************)
(* Properties.                                                             *)
(***************************************************************************)
\* The (category, percentage) pairs of a response's pie series.
PieOf(body) ==
    [k \in 1..Len(body.mental_health_categories.data) |->
        <<body.mental_health_categories.data[k].category,
          body.mental_health_categories.data[k].percentage>>]

\* The five data-derived series of a response.
DataSeries(body) ==
    <<body.emotional_trend, body.mental_health_categories,
      body.engagement_vs_mood, body.topics_discussed, body.wellbeing_index>>

\* Five identical records with the caption of the end-to-end test.
FiveAnxious == [i \in 1..5 |-> R1]

\* C1: the response of /analyze to five identical records captioned "I feel
\* anxious and stressed about the deadline" (sentiment 50) carries the pie
\* series computed from them: Anxiety 100, Stress 100, Depression 0.
C1_AnalyzeReportsComputedIndicators ==
    (entry = "analyze" /\ pc = "done" /\ req = FiveAnxious) =>
        /\ out.kind = "response"
        /\ PieOf(out.body) =
              << <<Some("Anxiety"), Some(1000)>>, <<Some("Stress"), Some(1000)>>,
                 <<Some("Depression"), Some(0)>> >>

\* The fixed list of four generic suggestions.
FixedSuggestions ==
    <<JStr("Try a 10-minute mindfulness meditation before starting your day."),
      JStr("Take a short walk after lunch to reduce mid-day stress."),
      JStr("Limit late-night screen time to improve sleep quality."),
      JStr("Reach out to a friend or colleague for social connection.")>>

\* The generator's answer parsed as a JSON list of at least four items.
GenGaveFour ==
    /\ gen.kind = "value"
    /\ gen.json.type = "array"
    /\ Len(gen.json.items) >= 4

\* C2: _generate_recommendations returns the first four items of the
\* generator's list, in its order, exactly when the answer parses as a list
\* of at least four items, and the fixed four suggestions in every other
\* case; never a partial or padded list.
C2_RecommendationsFirstFourOrFallback ==
    (genCalls > 0 /\ entry # "generate") =>
        /\ Len(recs) = 4
        /\ GenGaveFour => \A i \in 1..4 : recs[i] = gen.json.items[i]
        /\ ~GenGaveFour => recs = FixedSuggestions

\* The generator returned a three-item list and the fixed list came back.
C2_Witness_ThreeItemList ==
    /\ genCalls > 0
    /\ gen.kind = "value"
    /\ gen.json.type = "array"
    /\ Len(gen.json.items) = 3
    /\ recs = FixedSuggestions

\* C3: whatever the generator does, a call of analyze_mental_health_data
\* that reached the generator does not raise, and the five data-derived
\* series of its response are those computed from the input batch.
C3_ServiceRecoversEveryGeneratorAnswer ==
    (entry = "service" /\ pc = "done" /\ genCalls > 0) =>
        /\ out.kind = "response"
        /\ DataSeries(out.body) = DataSeries(prepare_chart_data(processed))

\* C4: /analyze-batch answers N datasets with exactly N results in request
\* order: after every iteration one result per dataset handled so far, the
\* canonical fallback for each dataset whose processing raised, and the
\* loop goes on to the next dataset until all are answered.
C4_BatchOneResultPerDataset ==
    entry = "batch" =>
        /\ Len(results) = idx
        /\ idx <= Len(req)
        /\ \A i \in 1..Len(results) :
              ProcessDataRaises(DataDicts(req[i])) =>
                  results[i] = get_fallback_analysis
        /\ pc = "done" =>
              /\ out.kind = "responses"
              /\ Len(results) = Len(req)

\* A batch of three datasets answered with three results, the second one
\* (whose processing raised) being the canonical fallback.
C4_Witness_ThreeDatasets ==
    /\ entry = "batch"
    /\ pc = "done"
    /\ Len(req) = 3
    /\ Len(results) = 3
    /\ ProcessDataRaises(DataDicts(req[2]))
    /\ results[2] = get_fallback_analysis

\* A dataset that passes the boundary validation of /analyze.
ValidDataset(d) ==
    /\ Len(d) >= MinDataPoints
    /\ \A i \in 1..Len(d) : d[i] \in RecordPool

\* C5: in a batch of three datasets of which only the second cannot be
\* processed (it is empty), results 1 and 3 are not the canonical fallback.
C5_BatchSiblingsKeepRealResults ==
    (/\ entry = "batch"
     /\ pc = "done"
     /\ Len(req) = 3
     /\ ValidDataset(req[1])
     /\ req[2] = <<>>
     /\ ValidDataset(req[3])) =>
        /\ results[1] # get_fallback_analysis
        /\ results[3] # get_fallback_analysis

\* C6: /analyze rejects an empty batch and a batch of fewer than five
\* records with HTTP 400 and a descriptive message; such a request is never
\* answered with the fallback analysis, and neither the pipeline nor the
\* generator is invoked for it.
C6_AnalyzeRejectsSmallBatches ==
    (entry = "analyze" /\ Len(req) < 5) =>
        /\ pc = "done"
        /\ out.kind = "http_error"
        /\ out.status = 400
        /\ out.detail =
              IF Len(req) = 0 THEN "No data points provided"
              ELSE "At least 5 data points required for meaningful analysis"
        /\ out.body # get_fallback_analysis
        /\ procCalls = 0
        /\ genCalls = 0

\* A request of four records was rejected.
C6_Witness_FourRecords ==
    /\ entry = "analyze"
    /\ Len(req) = 4
    /\ out.kind = "http_error"
    /\ out.status = 400

\* C7: on /analyze and on /analyze-batch alike, a dataset that is empty or
\* has fewer than five records is answered with an error, never with an
\* analysis result or the canonical fallback.
C7_ValidationFailureAlwaysSurfaced ==
    /\ (entry = "analyze" /\ pc = "done" /\ Len(req) < 5) =>
           out.kind = "http_error"
    /\ (entry = "batch" /\ pc = "done"
            /\ \E i \in 1..Len(req) : Len(req[i]) < 5) =>
           out.kind = "http_error"

\* An exception other than the validation error was raised while the
\* request of /analyze was processed.
ProcessingRaised ==
    \/ ProcessDataRaises(DataDicts(req))
    \/ genCalls > 0 /\ CardsRaise(recs)

\* C8: when a batch that passed the validation of /analyze makes the
\* processing raise, the canonical fallback AnalysisResponse, with its
\* fixed literal values, is returned as a normal response.
C8_ProcessingErrorGivesFallback ==
    (entry = "analyze" /\ pc = "done" /\ Len(req) >= 5 /\ ProcessingRaised) =>
        /\ out.kind = "response"
        /\ out.status = 200
        /\ out.body = get_fallback_analysis
        /\ PieOf(out.body) =
              << <<Some("Anxiety"), Some(350)>>, <<Some("Stress"), Some(450)>>,
                 <<Some("Depression"), Some(200)>> >>
        /\ out.body.wellbeing_index.value = Some(760)
        /\ Len(out.body.emotional_trend.data) = 7
        /\ Len(out.body.recommendations.data) = 4

\* A validated batch of five records whose processing raised was answered
\* with the fallback.
C8_Witness_FallbackReturned ==
    /\ entry = "analyze"
    /\ pc = "done"
    /\ Len(req) = 5
    /\ ProcessingRaised
    /\ out = Response(get_fallback_analysis)

\* The trigger substrings of each category, as the specification lists them.
Triggers ==
    [Anxiety |-> {"anxiety", "worried", "nervous", "panic", "stress", "overwhelmed"},
     Stress |-> {"stressed", "pressure", "deadline", "overwhelmed", "burnout",
                 "exhausted"},
     Depression |-> {"depressed", "sad", "down", "hopeless", "empty", "worthless"}]

\* Whether the lowercased caption+hashtags text contains a trigger of the
\* category, for each text.
TextTriggers ==
    [t \in RowTexts |->
        [category \in DOMAIN Triggers |->
            \E kw \in Triggers[category] :
                Contains(kw, Lower(t[1] \o " " \o t[2]))]]

\* The rows of df that contain a trigger of the category.
MatchingRows(df, category) ==
    {i \in 1..Len(df) :
        TextTriggers[<<df[i].caption_text, df[i].hashtags>>][category]}

\* C9: for a non-empty batch each of Anxiety, Stress and Depression gets
\* (number of records whose text contains one of its triggers / total) x 100,
\* a value in [0,100]; the categories are counted independently.
C9_IndicatorsAreMatchShares ==
    processed.raw_data # <<>> =>
        /\ DOMAIN processed.mental_health_indicators = {"Anxiety", "Stress", "Depression"}
        /\ \A category \in {"Anxiety", "Stress", "Depression"} :
              LET p == processed.mental_health_indicators[category]
                  df == processed.raw_data
              IN  /\ RatEq(p, [num |-> 100 * Cardinality(MatchingRows(df, category)),
                               den |-> Len(df)])
                  /\ p.num >= 0
                  /\ p.num <= 100 * p.den

\* A batch whose every record counts toward two categories: the
\* percentages are 100, 100 and 0 and do not sum to 100.
C9_Witness_TwoCategoriesAtOnce ==
    /\ Len(processed.raw_data) = 5
    /\ MatchingRows(processed.raw_data, "Anxiety")
          = MatchingRows(processed.raw_data, "Stress")
    /\ RatEq(processed.mental_health_indicators["Anxiety"], [num |-> 100, den |-> 1])
    /\ RatEq(processed.mental_health_indicators["Stress"], [num |-> 100, den |-> 1])
    /\ RatEq(processed.mental_health_indicators["Depression"], [num |-> 0, den |-> 1])

\* The sum of column f over the rows I of df.
RECURSIVE SumOver(_, _, _)
SumOver(df, I, f) ==
    IF I = {} THEN 0
    ELSE LET i == CHOOSE i \in I : TRUE
         IN  df[i][f] + SumOver(df, I \ {i}, f)

\* The rows of df whose timestamp falls on the date.
RowsOn(df, date) == {i \in 1..Len(df) : DateOf(df[i].timestamp) = date}

\* The number of elements of s equal to x.
Occurrences(s, x) == Cardinality({i \in 1..Len(s) : s[i] = x})

\* The rows of a frame restricted to the columns of the submitted records.
SubmittedColumns(df) ==
    [i \in 1..Len(df) |-> [f \in DOMAIN Dict(R1) |-> df[i][f]]]

\* C10: for a non-empty batch _calculate_daily_aggregates returns one
\* aggregate per distinct calendar date of the batch, dates strictly
\* ascending; each mean is the arithmetic mean and each total the sum over
\* exactly the records of that date.
C10_DailyAggregatesPerDate ==
    processed.raw_data # <<>> =>
        LET df == processed.raw_data
            daily == processed.daily_data
        IN  /\ entry \in {"process", "service"} =>
                  \A r \in RecordPool :
                      Occurrences(SubmittedColumns(df), Dict(r)) = Occurrences(req, r)
            /\ {daily[k].date : k \in 1..Len(daily)}
                  = {DateOf(df[i].timestamp) : i \in 1..Len(df)}
            /\ \A k \in 1..(Len(daily) - 1) : daily[k].date < daily[k + 1].date
            /\ \A k \in 1..Len(daily) :
                  LET I == RowsOn(df, daily[k].date)
                      n == Cardinality(I)
                      mean(f) == [num |-> SumOver(df, I, f), den |-> 100 * n]
                  IN  /\ RatEq(daily[k].sentiment_score, mean("sentiment_score"))
                      /\ RatEq(daily[k].engagement_score, mean("engagement_score"))
                      /\ RatEq(daily[k].wellbeing_index, mean("wellbeing_index"))
                      /\ daily[k].likes_count = SumOver(df, I, "likes_count")
                      /\ daily[k].comments_count = SumOver(df, I, "comments_count")
                      /\ daily[k].shares_count = SumOver(df, I, "shares_count")
                      /\ daily[k].time_spent_on_post = SumOver(df, I, "time_spent_on_post")
                      /\ daily[k].night_usage_minutes = SumOver(df, I, "night_usage_minutes")

\* A batch submitted out of date order with a date of one record and a
\* date of several: two aggregates, the first one that single record's.
C10_Witness_TwoDates ==
    /\ entry = "process"
    /\ Len(req) >= 3
    /\ req[1].timestamp > req[Len(req)].timestamp
    /\ Len(processed.daily_data) = 2
    /\ Cardinality(RowsOn(processed.raw_data, processed.daily_data[1].date)) = 1
    /\ Cardinality(RowsOn(processed.raw_data, processed.daily_data[2].date)) >= 2
    /\ processed.daily_data[1].sentiment_score.num
          = processed.raw_data[1].sentiment_score

\* The fixed stress vocabulary, in its list order.
Vocabulary ==
    <<"workload", "deadline", "sleep", "balance", "family", "exercise",
      "burnout", "pressure", "stress", "tired", "overwhelmed", "anxious",
      "worried", "exhausted">>

\* The position of a word in the vocabulary list.
VocabularyIndex(word) == CHOOSE k \in 1..Len(Vocabulary) : Vocabulary[k] = word

\* The number of tokens of the whole batch equal to the word.
TokenCount(df, word) == CountOf(AllWords(df), word)

\* The vocabulary words occurring at least once in the batch.
WordsPresent(df) ==
    {Vocabulary[k] : k \in {k \in 1..Len(Vocabulary) : TokenCount(df, Vocabulary[k]) > 0}}

\* C11: _analyze_topics returns at most 7 (word, frequency) pairs; every
\* word is of the 14-word vocabulary, appears once, and has frequency >= 1
\* equal to its token count over the batch; the pairs are in non-increasing
\* frequency order, equal frequencies in vocabulary-list order; there are
\* min(7, number of vocabulary words occurring) pairs, never padded.
C11_TopicsAreTopSevenVocabularyWords ==
    processed.raw_data # <<>> =>
        LET df == processed.raw_data
            t == processed.topic_analysis
            n == Cardinality(WordsPresent(df))
        IN  /\ Len(t) <= 7
            /\ Len(t) = IF n < 7 THEN n ELSE 7
            /\ \A k \in 1..Len(t) :
                  /\ t[k].word \in {Vocabulary[j] : j \in 1..Len(Vocabulary)}
                  /\ t[k].frequency >= 1
                  /\ t[k].frequency = TokenCount(df, t[k].word)
            /\ \A j, k \in 1..Len(t) : j # k => t[j].word # t[k].word
            /\ \A k \in 1..(Len(t) - 1) :
                  /\ t[k].frequency >= t[k + 1].frequency
                  /\ t[k].frequency = t[k + 1].frequency =>
                        VocabularyIndex(t[k].word) < VocabularyIndex(t[k + 1].word)

\* A batch in which eight vocabulary words occur, four of them twice:
\* seven pairs are returned, with ties among them and a word left out.
C11_Witness_EightWordsWithTies ==
    /\ Cardinality(WordsPresent(processed.raw_data)) = 8
    /\ Len(processed.topic_analysis) = 7
    /\ processed.topic_analysis[1].frequency = 2
    /\ processed.topic_analysis[4].frequency = 2
    /\ processed.topic_analysis[7].frequency = 1

\* The status the ladder gives a batch of n records whose wellbeing
\* indexes (in hundredths) sum to total.
LadderStatus(total, n) ==
    CASE total >= 8000 * n -> "Excellent"
      [] total < 8000 * n /\ total >= 6000 * n -> "Good"
      [] total < 6000 * n /\ total >= 4000 * n -> "Stable"
      [] total < 4000 * n -> "Needs Attention"

\* The status _calculate_wellbeing_metrics gives a batch of one record of
\* wellbeing index m (in hundredths).
StatusAt(m) ==
    _calculate_wellbeing_metrics(<<[Dict(R1) EXCEPT !.wellbeing_index = m]>>).status

\* C12: the status of _calculate_wellbeing_metrics is the function of the
\* mean wellbeing index m given by the ladder: m >= 80 Excellent,
\* 60 <= m < 80 Good, 40 <= m < 60 Stable, m < 40 Needs Attention; so
\* 80 -> Excellent, 79.99 -> Good, 60 -> Good, 59.99 -> Stable,
\* 40 -> Stable, 39.99 -> Needs Attention.
C12_StatusFollowsLadder ==
    /\ processed.raw_data # <<>> =>
          /\ processed.wellbeing_metrics.status =
                LadderStatus(SumSeq(Col(processed.raw_data, "wellbeing_index")),
                             Len(processed.raw_data))
          /\ RatEq(processed.wellbeing_metrics.wellbeing_score,
                   [num |-> SumSeq(Col(processed.raw_data, "wellbeing_index")),
                    den |-> 100 * Len(processed.raw_data)])
    /\ pc = "done" =>
          /\ StatusAt(8000) = "Excellent"
          /\ StatusAt(7999) = "Good"
          /\ StatusAt(6000) = "Good"
          /\ StatusAt(5999) = "Stable"
          /\ StatusAt(4000) = "Stable"
          /\ StatusAt(3999) = "Needs Attention"

\* A batch of two records (79.99 and 39.99) whose mean is 59.99: Stable.
C12_Witness_MeanJustBelowSixty ==
    /\ Len(processed.raw_data) = 2
    /\ RatEq(processed.wellbeing_metrics.wellbeing_score, [num |-> 5999, den |-> 100])
    /\ processed.wellbeing_metrics.status = "Stable"

\* The scatter point of a record: its likes, comments and sentiment (the
\* sentiment, in hundredths, as a number of tenths).
PointOf(r) ==
    [ChartDataPoint EXCEPT
        !.likes = Some(r.likes_count),
        !.comments = Some(r.comments_count),
        !.emotional_tone = Some(r.sentiment_score \div 10)]

\* The scatter points of the first 5 records of a list.
FirstFivePoints(rows) ==
    [k \in 1..(IF Len(rows) < 5 THEN Len(rows) ELSE 5) |-> PointOf(rows[k])]

\* process_data followed by prepare_chart_data has returned.
ChartsReturned == entry = "process" /\ pc = "done" /\ out.kind = "returned"

\* C13 (as stated): the scatter series consists of the likes, comments and
\* sentiment of the first 5 records of the batch in the order the batch was
\* submitted, also for batches not in timestamp order.
C13_ScatterFirstFiveInBatchOrder ==
    ChartsReturned =>
        out.body.engagement_vs_mood.data = FirstFivePoints(req)

\* C13 (amended): the scatter series consists of the likes, comments and
\* sentiment of the first 5 records of the batch sorted by ascending
\* timestamp (all records if fewer than 5); for a batch submitted in
\* strictly ascending timestamp order these are its first 5 records as
\* submitted.
C13_ScatterFirstFiveInTimestampOrder ==
    ChartsReturned =>
        LET df == processed.raw_data
        IN  /\ Len(df) = Len(req)
            /\ \A r \in RecordPool :
                  Occurrences(SubmittedColumns(df), Dict(r)) = Occurrences(req, r)
            /\ \A k \in 1..(Len(df) - 1) : df[k].timestamp <= df[k + 1].timestamp
            /\ out.body.engagement_vs_mood.data = FirstFivePoints(df)
            /\ (\A k \in 1..(Len(req) - 1) : req[k].timestamp < req[k + 1].timestamp) =>
                  out.body.engagement_vs_mood.data = FirstFivePoints(req)

\* A batch of six records submitted out of timestamp order: five points,
\* the first of them not the first submitted record's.
C13_Witness_SixRecordsOutOfOrder ==
    /\ ChartsReturned
    /\ Len(req) = 6
    /\ req[1].timestamp > req[2].timestamp
    /\ Len(out.body.engagement_vs_mood.data) = 5
    /\ out.body.engagement_vs_mood.data[1] # PointOf(req[1])
    /\ out.body.engagement_vs_mood.data[1] = PointOf(R3)

\* The fields of a chart point that are not null.
FieldsSet(point) == {f \in DOMAIN point : point[f] # None}

\* Every point of a series sets exactly the given fields.
PointsSetOnly(series, fields) ==
    \A k \in 1..Len(series.data) : FieldsSet(series.data[k]) = fields

\* A series of the given kind and title without gauge fields.
PlainSeries(series, chart_type, title) ==
    /\ series.chart_type = chart_type
    /\ series.title = title
    /\ series.value = None
    /\ series.range = None
    /\ series.status = None

\* C14: prepare_chart_data returns exactly the six named series, each with
\* its fixed chart kind and title; the gauge has range min=0, max=100 and
\* the status of the wellbeing summary; the recommendations series is
\* created empty; every point sets only the fields of its own chart kind
\* and leaves all other point fields null.
C14_SixSeriesWithFixedKinds ==
    ChartsReturned =>
        LET b == out.body
        IN  /\ DOMAIN b = {"emotional_trend", "mental_health_categories",
                           "engagement_vs_mood", "topics_discussed",
                           "wellbeing_index", "recommendations"}
            /\ PlainSeries(b.emotional_trend, "line", "Daily Sentiment Over Time")
            /\ PlainSeries(b.mental_health_categories, "pie",
                           "Distribution of Anxiety/Stress/Depression Indicators")
            /\ PlainSeries(b.engagement_vs_mood, "scatter", "Engagement vs Mood")
            /\ PlainSeries(b.topics_discussed, "word_cloud", "Top Stress-Related Words")
            /\ PlainSeries(b.recommendations, "text_cards", "Personalized Suggestions")
            /\ b.recommendations.data = <<>>
            /\ b.wellbeing_index.chart_type = "gauge"
            /\ b.wellbeing_index.title = "Overall Wellbeing Score"
            /\ b.wellbeing_index.data = <<>>
            /\ b.wellbeing_index.value # None
            /\ b.wellbeing_index.range = Some([min |-> 0, max |-> 100])
            /\ b.wellbeing_index.status = Some(processed.wellbeing_metrics.status)
            /\ PointsSetOnly(b.emotional_trend, {"date", "sentiment_score"})
            /\ PointsSetOnly(b.mental_health_categories, {"category", "percentage"})
            /\ PointsSetOnly(b.engagement_vs_mood, {"likes", "comments", "emotional_tone"})
            /\ PointsSetOnly(b.topics_discussed, {"word", "frequency"})

\* Charts returned with points in each of the four data series.
C14_Witness_AllSeriesPopulated ==
    /\ ChartsReturned
    /\ Len(out.body.emotional_trend.data) = 2
    /\ Len(out.body.mental_health_categories.data) = 3
    /\ Len(out.body.engagement_vs_mood.data) = 5
    /\ Len(out.body.topics_discussed.data) = 7
    /\ out.body.wellbeing_index.status = Some("Good")

\* t tenths is x rounded to one decimal place: the nearest tenth, the even
\* one of two equally near.
IsRoundedToTenth(x, t) ==
    LET twice == 2 * (10 * x.num - t * x.den)
    IN  /\ twice <= x.den
        /\ -twice <= x.den
        /\ (twice = x.den \/ -twice = x.den) => t % 2 = 0

\* The number a digit character stands for.
DigitValue(c) == (CHOOSE k \in 1..10 : DigitStr[k] = c) - 1

\* The day of January 2025 a date string "2025-01-dd" names.
DayOfDateString(s) ==
    IF Len(s) = 10 /\ SubSeq(s, 1, 8) = "2025-01-"
    THEN 10 * DigitValue(SubSeq(s, 9, 9)) + DigitValue(SubSeq(s, 10, 10))
    ELSE 0

\* A number of tenths as a rational.
Tenths(t) == [num |-> t, den |-> 10]

\* The analytical output read back from assembled chart series.
ReadBack(b) ==
    [daily_data |->
        [k \in 1..Len(b.emotional_trend.data) |->
            [date |-> DayOfDateString(b.emotional_trend.data[k].date[1]),
             sentiment_score |-> Tenths(b.emotional_trend.data[k].sentiment_score[1])]],
     mental_health_indicators |->
        [category \in {b.mental_health_categories.data[k].category[1] :
                          k \in 1..Len(b.mental_health_categories.data)} |->
            Tenths((CHOOSE pt \in {b.mental_health_categories.data[k] :
                                     k \in 1..Len(b.mental_health_categories.data)} :
                        pt.category[1] = category).percentage[1])],
     engagement_patterns |->
        [k \in 1..Len(b.engagement_vs_mood.data) |->
            [likes |-> b.engagement_vs_mood.data[k].likes[1],
             comments |-> b.engagement_vs_mood.data[k].comments[1],
             emotional_tone |-> Tenths(b.engagement_vs_mood.data[k].emotional_tone[1])]],
     topic_analysis |->
        [k \in 1..Len(b.topics_discussed.data) |->
            [word |-> b.topics_discussed.data[k].word[1],
             frequency |-> b.topics_discussed.data[k].frequency[1]]],
     wellbeing_metrics |->
        [wellbeing_score |-> Tenths(b.wellbeing_index.value[1]),
         status |-> b.wellbeing_index.status[1]]]

\* C15: the values read back from the series prepare_chart_data assembled
\* (daily sentiment per date, category percentages, scatter emotional tone,
\* gauge value) equal the inputs rounded to one decimal place, in the same
\* order, with dates, categories, words, integer frequencies, likes and
\* comments unchanged; assembling again from the values read back, which
\* are already rounded to one decimal, reproduces the same series.
C15_ChartValuesRoundTrip ==
    ChartsReturned =>
        LET p == processed
            engagement == Take(p.engagement_patterns, 5)
            back == ReadBack(out.body)
        IN  /\ Len(back.daily_data) = Len(p.daily_data)
            /\ \A k \in 1..Len(p.daily_data) :
                  /\ back.daily_data[k].date = p.daily_data[k].date
                  /\ IsRoundedToTenth(p.daily_data[k].sentiment_score,
                                      back.daily_data[k].sentiment_score.num)
            /\ DOMAIN back.mental_health_indicators = DOMAIN p.mental_health_indicators
            /\ \A category \in DOMAIN p.mental_health_indicators :
                  IsRoundedToTenth(p.mental_health_indicators[category],
                                   back.mental_health_indicators[category].num)
            /\ Len(back.engagement_patterns) = Len(engagement)
            /\ \A k \in 1..Len(engagement) :
                  /\ back.engagement_patterns[k].likes = engagement[k].likes
                  /\ back.engagement_patterns[k].comments = engagement[k].comments
                  /\ IsRoundedToTenth(engagement[k].emotional_tone,
                                      back.engagement_patterns[k].emotional_tone.num)
            /\ back.topic_analysis = p.topic_analysis
            /\ IsRoundedToTenth(p.wellbeing_metrics.wellbeing_score,
                                back.wellbeing_metrics.wellbeing_score.num)
            /\ back.wellbeing_metrics.status = p.wellbeing_metrics.status
            /\ prepare_chart_data(back) = out.body

\* Charts whose inputs are not multiples of a tenth: a daily mean of 65.25
\* read back as 65.2 and a percentage of 200/3 read back as 66.7.
C15_Witness_RoundingChangesValues ==
    /\ ChartsReturned
    /\ \E k \in 1..Len(processed.daily_data) :
          /\ RatEq(processed.daily_data[k].sentiment_score, [num |-> 6525, den |-> 100])
          /\ out.body.emotional_trend.data[k].sentiment_score = Some(652)
    /\ RatEq(processed.mental_health_indicators["Stress"], [num |-> 200, den |-> 3])
    /\ out.body.mental_health_categories.data[2].percentage = Some(667)

\* The generator answered with a JSON list of at least num_posts elements.
GenGaveEnough ==
    gen.kind = "value" /\ gen.json.type = "array" /\ Len(gen.json.items) >= numPosts

\* C16: for every num_posts >= 0 and every behaviour of the generator,
\* generate_sample_data returns exactly num_posts records: the first
\* num_posts elements of the generator's JSON array when it is a list of at
\* least num_posts elements, and otherwise (call error, invalid JSON,
\* non-list, shorter list) num_posts records of the fallback, made without
\* a further external call.
C16_SampleDataHasRequestedCount ==
    (entry = "generate" /\ pc = "done") =>
        /\ out.kind = "sample_response"
        /\ Len(samples.data) = numPosts
        /\ GenGaveEnough =>
              /\ samples.source = "generator"
              /\ \A i \in 1..numPosts : samples.data[i] = gen.json.items[i]
        /\ ~GenGaveEnough =>
              /\ samples.source = "fallback"
              /\ \A i \in 1..numPosts : samples.data[i].post_id = i
              /\ genCalls = 1

\* Three records were requested and the generator returned a list of two:
\* three fallback records came back.
C16_Witness_ShortListFallsBack ==
    /\ entry = "generate"
    /\ pc = "done"
    /\ numPosts = 3
    /\ gen.kind = "value"
    /\ gen.json.type = "array"
    /\ Len(gen.json.items) = 2
    /\ samples.source = "fallback"
    /\ Len(samples.data) = 3

\* The documented range of each numeric field of a synthesized record
\* (scores in tenths, confidences in hundredths).
DocumentedRange ==
    [sentiment_score |-> 200..800,
     average_comment_sentiment |-> 200..800,
     engagement_score |-> 300..950,
     wellbeing_index |-> 300..900,
     likes_count |-> 5..50,
     comments_count |-> 0..15,
     shares_count |-> 0..8,
     saved_count |-> 0..5,
     time_spent_on_post |-> 30..300,
     comments_read_count |-> 0..10,
     num_sessions_per_day |-> 5..15,
     avg_session_duration |-> 80..250,
     night_usage_minutes |-> 10..120,
     emotion_confidence |-> 70..100,
     label_confidence |-> 70..100]

\* C17: every record _get_fallback_sample_data produces, for any random
\* source, has its numeric fields inside the documented ranges (sentiment
\* and average comment sentiment in [20,80], engagement in [30,95],
\* wellbeing in [30,90], likes in [5,50], comments in [0,15], shares in
\* [0,8], saved in [0,5], time spent in [30,300], comments read in [0,10],
\* sessions per day in [5,15], session duration in [8,25], night usage in
\* [10,120], both confidences in [0.7,1.0]).
C17_FallbackFieldsWithinRanges ==
    samples.source = "fallback" =>
        \A i \in 1..Len(samples.data) :
            \A f \in DOMAIN DocumentedRange :
                samples.data[i][f] \in DocumentedRange[f]

\* A fallback record at the upper end of its ranges and one at the lower
\* end, from the same random source.
C17_Witness_BothEndsOfRanges ==
    /\ samples.source = "fallback"
    /\ \E i \in 1..Len(samples.data) :
          /\ samples.data[i].likes_count = 50
          /\ samples.data[i].sentiment_score = 800
          /\ samples.data[i].label_confidence = 100
    /\ \E i \in 1..Len(samples.data) :
          /\ samples.data[i].likes_count = 5
          /\ samples.data[i].sentiment_score = 200
          /\ samples.data[i].label_confidence = 70

\* Two requests that were sent the same input and whose generator calls
\* were answered alike.
SameRequest(c1, c2) ==
    /\ clients[c1].pc = "done"
    /\ clients[c2].pc = "done"
    /\ clients[c1].entry = clients[c2].entry
    /\ clients[c1].num_posts = clients[c2].num_posts
    /\ clients[c1].input = clients[c2].input
    /\ clients[c1].answer = clients[c2].answer

\* Two requests got the same response.
SameResponse(c1, c2) ==
    /\ clients[c1].out = clients[c2].out
    /\ clients[c1].results = clients[c2].results
    /\ clients[c1].samples.source = clients[c2].samples.source
    /\ clients[c1].samples.data = clients[c2].samples.data

AwaitingGenerator == {"await_gen", "await_sample"}

\* C19: in each flow the generator is invoked at most once per request and
\* never retried: on every path through _generate_recommendations and
\* through generate_sample_data there is exactly one call attempt, and
\* after an attempt that fails or yields an invalid response the only
\* remaining transition is to the fallback, which makes no external call.
C19_GeneratorCalledOnceNeverRetried ==
    [][/\ genCalls' \in {genCalls, genCalls + 1}
       /\ pc \in AwaitingGenerator =>
             /\ genCalls' = genCalls + 1
             /\ pc' \notin AwaitingGenerator
       /\ genCalls' = genCalls + 1 =>
             /\ pc \in AwaitingGenerator
             /\ (pc = "await_gen" /\ ~GenGaveFour') => recs' = FixedSuggestions
             /\ (pc = "await_sample" /\ ~GenGaveEnough') => samples'.source = "fallback"
       /\ (pc' = "done" /\ entry' \in {"analyze", "service", "generate"}) =>
             genCalls' <= 1
       /\ (pc' = "done" /\ entry' \in {"service", "generate"} /\ out'.kind # "raised") =>
             genCalls' = 1
      ]_vars

\* The one call of the recommendation flow failed and the fixed list was
\* returned without a second call.
C19_Witness_FailedCallFallsBack ==
    /\ entry = "service"
    /\ pc = "done"
    /\ gen.kind = "error"
    /\ genCalls = 1
    /\ recs = FixedSuggestions
    /\ out.kind = "response"

\* The record table as process_data hands it to its stages: the submitted
\* records as dicts, sorted by timestamp.
TableHandedOn(df) ==
    df \in sort_values([i \in 1..Len(req) |-> Dict(req[i])])

\* process_data ran on the batch of the call.
TableProcessed == entry \in {"process", "service"} /\ processed.raw_data # <<>>

\* analyze_mental_health_data went through its recommendation step.
RecommendationStepDone == entry = "service" /\ pc = "done" /\ genCalls > 0

\* C20 (as stated): no stage mutates a value after it was handed on: the
\* record table given to the aggregation, indicator, topic and wellbeing
\* stages is left unchanged by each of them, and the chart series returned
\* by prepare_chart_data are not modified afterwards by the recommendation
\* step.
C20_StagesLeaveHandedValuesUnchanged ==
    /\ TableProcessed => TableHandedOn(processed.raw_data)
    /\ RecommendationStepDone => chart = prepare_chart_data(processed)

\* C20 (amended): the aggregation stage adds one column, date (the calendar
\* date of the timestamp), to the record table in place; apart from that
\* column the table is left unchanged by every stage.  The recommendation
\* step replaces in place the data of the recommendations series of the
\* chart data prepare_chart_data returned, when every recommendation is
\* accepted as a card text, and modifies none of the five other series.
C20_OnlyDateColumnAndCardsAreEdited ==
    /\ TableProcessed =>
          /\ TableHandedOn(SubmittedColumns(processed.raw_data))
          /\ \A i \in 1..Len(processed.raw_data) :
                /\ DOMAIN processed.raw_data[i] = DOMAIN Dict(R1) \cup {"date"}
                /\ processed.raw_data[i].date = DateOf(processed.raw_data[i].timestamp)
    /\ RecommendationStepDone =>
          /\ DataSeries(chart) = DataSeries(prepare_chart_data(processed))
          /\ chart.recommendations =
                [prepare_chart_data(processed).recommendations EXCEPT
                    !.data = IF CardsRaise(recs) THEN <<>> ELSE Cards(recs)]

\* A call whose recommendation step filled the four cards into the series
\* prepare_chart_data had returned empty, on a table that got its date column.
C20_Witness_CardsWrittenIntoChart ==
    /\ RecommendationStepDone
    /\ out.kind = "response"
    /\ prepare_chart_data(processed).recommendations.data = <<>>
    /\ Len(chart.recommendations.data) = 4
    /\ processed.raw_data[1].date = DateOf(req[1].timestamp)

\* Letters and digits of lowercased ASCII text.
AlphanumericChars ==
    {"a","b","c","d","e","f","g","h","i","j","k","l","m",
     "n","o","p","q","r","s","t","u","v","w","x","y","z",
     "0","1","2","3","4","5","6","7","8","9"}

IsAlphanumeric(token) ==
    \A i \in 1..Len(token) : SubSeq(token, i, i) \in AlphanumericChars

RECURSIVE AlphanumericFrom(_, _)
AlphanumericFrom(s, i) ==
    IF i > Len(s) THEN ""
    ELSE LET c == SubSeq(s, i, i)
         IN  (IF c \in AlphanumericChars \cup SpaceChars THEN c ELSE " ")
                 \o AlphanumericFrom(s, i + 1)

\* The tokens of each row text when every character that is not alphanumeric
\* or whitespace is replaced by a space before splitting.
AlphanumericTokens ==
    [t \in RowTexts |-> Split(AlphanumericFrom(Lower(t[1] \o " " \o t[2]), 1))]

RECURSIVE AlphanumericWords(_)
AlphanumericWords(df) ==
    IF df = <<>> THEN <<>>
    ELSE AlphanumericTokens[<<Head(df).caption_text, Head(df).hashtags>>]
             \o AlphanumericWords(Tail(df))

\* C21: the tokenizer of _analyze_topics replaces every character that is
\* not alphanumeric or whitespace by a space before splitting: every token
\* is made of alphanumeric characters only, a vocabulary word delimited by
\* any non-alphanumeric character ('#', '-', '.', '_') is counted as an
\* occurrence of that word, and a word is counted on whole lowercased tokens,
\* not on substrings.
C21_TokensAreAlphanumericWords ==
    TableProcessed =>
        LET df == processed.raw_data
            t == processed.topic_analysis
        IN  /\ \A i \in 1..Len(df) :
                  /\ RowWords(df[i]) =
                        AlphanumericTokens[<<df[i].caption_text, df[i].hashtags>>]
                  /\ \A k \in 1..Len(RowWords(df[i])) :
                        IsAlphanumeric(RowWords(df[i])[k])
            /\ \A k \in 1..Len(t) :
                  t[k].frequency = CountOf(AlphanumericWords(df), t[k].word)
            /\ \A j \in 1..Len(Vocabulary) :
                  (Len(t) < TopWords /\ CountOf(AlphanumericWords(df), Vocabulary[j]) > 0)
                      => \E k \in 1..Len(t) : t[k].word = Vocabulary[j]

\* The AnalysisResponse bodies handed to a caller in the current state: the
\* body of a single response and the elements of a batch result list.
ResponsesReturned ==
    (IF pc = "done" /\ out.kind = "response" THEN {out.body} ELSE {})
        \cup (IF pc = "done" /\ out.kind = "responses"
              THEN {results[k] : k \in 1..Len(results)} ELSE {})

\* The label the threshold ladder assigns to a gauge value given in tenths.
LadderOfValue(tenths) ==
    CASE tenths >= 800 -> "Excellent"
      [] tenths < 800 /\ tenths >= 600 -> "Good"
      [] tenths < 600 /\ tenths >= 400 -> "Stable"
      [] tenths < 400 -> "Needs Attention"

\* The status of a gauge is the ladder's label of the value it reports.
GaugeConsistent(gauge) ==
    /\ gauge.value # None
    /\ gauge.status = Some(LadderOfValue(gauge.value[1]))

\* C22: in every AnalysisResponse an endpoint returns, computed or canonical
\* fallback, the status of the wellbeing_index gauge is the label the
\* threshold ladder (>= 80 Excellent, >= 60 Good, >= 40 Stable, else Needs
\* Attention) assigns to the value the gauge reports.
C22_GaugeStatusIsLadderOfReportedValue ==
    \A body \in ResponsesReturned : GaugeConsistent(body.wellbeing_index)

Summary(processed_data) ==
    [daily_data |-> processed_data.daily_data,
     mental_health_indicators |-> processed_data.mental_health_indicators,
     topic_analysis |-> processed_data.topic_analysis,
     wellbeing_metrics |-> processed_data.wellbeing_metrics]

\* The records of a batch regrouped record by record: the one arrangement
\* all permutations of the batch have in common.
PoolOrder == <<R1, R2, R3, R4>>

RECURSIVE RegroupedFrom(_, _)
RegroupedFrom(batch, k) ==
    IF k > Len(PoolOrder) THEN <<>>
    ELSE SelectSeq(batch, LAMBDA r : r = PoolOrder[k]) \o RegroupedFrom(batch, k + 1)

Regrouped(batch) == RegroupedFrom(batch, 1)

\* Every result process_data can give the batch has the summaries of the
\* current result.
SameSummaries(batch) ==
    \A p \in process_data(batch) : Summary(p) = Summary(processed)

====
